---- MODULE Spec2Model ----
(***************************************************************************)
(* Model of services/balance_accumulator_handler.go (ortelius): the        *)
(* BalancerAccumulateHandler runner (Run), the accumulation loop           *)
(* (Accumulate) and the two staging passes (processOutputs,                *)
(* processTransactions) against a relational store with transactions and   *)
(* row locks.                                                              *)
(*                                                                         *)
(* A goroutine spawned by Run is a "task" <<p, s>>: process p, slot s.     *)
(* Every task owns at most one open database transaction.  The committed   *)
(* database is the six table variables; a transaction's uncommitted        *)
(* writes live in the task record (ins, upd, flg) and reach the tables     *)
(* only in Commit.                                                         *)
(*                                                                         *)
(* Specifications: SpecRun (two callers racing on Run, a store that fails  *)
(* statements), SpecRunFair (SpecRun with fair callers), SpecAcc (Run      *)
(* called again and again by one caller over several workloads), SpecConc  *)
(* (two processes on one store, with upstream ingestion and the store's    *)
(* deadlock detection) and SpecQuietFair (one fairly scheduled process on  *)
(* a store that never fails).                                              *)
(***************************************************************************)
EXTENDS Integers, Sequences, FiniteSets, TLC

\* ---------------------------------------------------------------- bounds

\* Batch cap.  The program's value is 100 (RowLintValue, line 18); the model
\* scales it down so that full and short batches both occur.
RowLintValue == 2
\* Run invocations the first of the concurrent caller threads may issue.
MaxCalls == 1
\* Run invocations of the single caller of the sequential specification.
MaxRuns == 2
\* Database statement failures the store may inject in one behaviour.
MaxFaults == 2

\* ------------------------------------------------------ program constants

\* Outer iteration cap of Accumulate: for ; icnt < 10; icnt++
MaxIdle == 10

\* processType of an output pass (processTypeIn, processTypeOut); the
\* transaction pass, which has no processType in the source, is tagged "tx".
processTypeIn == "in"
processTypeOut == "out"
processTypeTx == "tx"

\* db.DeadlockDBErrorMessage, as a sequence of words.
DeadlockDBErrorMessage == <<"Deadlock", "found">>

\* Error messages the driver can return, as sequences of words.
DeadlockError ==
    <<"Error", "1213:", "Deadlock", "found", "when", "trying", "to", "get", "lock;",
      "try", "restarting", "transaction">>
TimeoutError == <<"context", "deadline", "exceeded">>
LockWaitError == <<"Error", "1205:", "Lock", "wait", "timeout", "exceeded">>
ErrorMessages == {DeadlockError, TimeoutError, LockWaitError}
NoError == <<>>

\* strings.Contains over word sequences: sub occurs contiguously in s.
Contains(s, sub) ==
    \E i \in 1..(Len(s) + 1) :
        /\ i + Len(sub) - 1 <= Len(s)
        /\ \A j \in 1..Len(sub) : s[i + j - 1] = sub[j]

\* -------------------------------------------------------------- universe

Procs == {1, 2}
Callers == {1, 2}
Slots == {1, 2}
Tasks == Procs \X Slots
NoOne == 0

\* Staging rows of output_addresses_accumulate, in primary-key order.
OaaRows == << <<1, "A">>, <<1, "B">>, <<2, "A">> >>
\* Row ids of output_txs_accumulate, in primary-key order.
OtaIds == <<1, 2, 3>>

Range(s) == {s[i] : i \in 1..Len(s)}
Min(a, b) == IF a < b THEN a ELSE b

VARIABLES
    running,                      \* [Procs -> Int]: BalancerAccumulateHandler.running
    lock,                         \* [Procs -> Callers \cup {NoOne}]: holder of a.lock
    runpc,                        \* [Procs -> [Callers -> position inside Run]]
    calls,                        \* [Procs -> [Callers -> Run invocations left]]
    task,                         \* [Tasks -> goroutine state]
    held,                         \* [Tasks -> set of row locks of its transaction]
    output_addresses_accumulate,  \* [row -> [processed_out, processed_in]]
    output_txs_accumulate,        \* [id -> [chain_id, asset_id, address, transaction_id, processed]]
    avm_outputs,                  \* [id -> [chain_id, asset_id, transaction_id, amount]]
    avm_output_addresses,         \* set of <<output_id, address>>
    avm_outputs_redeeming,        \* set of ids
    accumulate_balances,          \* [balance key -> counters]
    hist                          \* history: what has happened so far

tables == <<output_addresses_accumulate, output_txs_accumulate, avm_outputs,
            avm_output_addresses, avm_outputs_redeeming, accumulate_balances>>
runner == <<running, lock, runpc, calls>>
vars == <<running, lock, runpc, calls, task, held, output_addresses_accumulate,
          output_txs_accumulate, avm_outputs, avm_output_addresses,
          avm_outputs_redeeming, accumulate_balances, hist>>

\* ---------------------------------------------------------- balance keys

\* AccumulateBalances.ComputeID: a deterministic hash of (chain, asset,
\* address), modelled as the collision-free encoding of the triple.
ComputeID(chain_id, asset_id, address) == <<"H", chain_id, asset_id, address>>

ZeroBalance ==
    [utxo_count |-> 0, total_received |-> 0, total_sent |-> 0, transaction_count |-> 0]

\* Lock resources.
OaaLock(row) == <<"oaa", row>>
OtaLock(id) == <<"ota", id>>
BalLock(key) == <<"bal", key>>

LockedByOther(t, res) == \E u \in Tasks \ {t} : res \in held[u]

\* ------------------------------------------------------------------ tasks

NoTask ==
    [pc |-> "none", err |-> NoError, icnt |-> 0, typ |-> processTypeOut,
     rowdata |-> <<>>, ri |-> 1, balances |-> <<>>, bi |-> 1, ids |-> <<>>,
     ins |-> {}, upd |-> <<>>, flg |-> {},
     attempts |-> 0, deadlocks |-> 0, others |-> 0, warns |-> 0,
     cnt |-> 0, idle |-> 0, prog |-> FALSE, ever |-> FALSE]

LiveTasks(p) == {s \in Slots : task[<<p, s>>].pc # "none"}
\* Callers that have incremented the counter and not yet started the goroutine.
PendingSpawns(p) == {c \in Callers : runpc[p][c] = "go"}

\* ----------------------------------------------------------------- Run

\* A caller thread invokes a.Run(conns, persist, sc).
RunCall(p, c) ==
    /\ runpc[p][c] = "idle"
    /\ calls[p][c] > 0
    /\ calls' = [calls EXCEPT ![p][c] = @ - 1]
    /\ runpc' = [runpc EXCEPT ![p][c] = "fast"]
    /\ UNCHANGED <<running, lock, task, held, tables, hist>>

\* Line 34: the fast-path load; nonzero returns at once.
RunFast(p, c) ==
    /\ runpc[p][c] = "fast"
    /\ runpc' = [runpc EXCEPT ![p][c] = IF running[p] # 0 THEN "idle" ELSE "lock"]
    /\ hist' = [hist EXCEPT !.dropped = IF running[p] # 0 THEN @ \cup {"fast"} ELSE @]
    /\ UNCHANGED <<running, lock, calls, task, held, tables>>

\* Line 38: a.lock.Lock().
RunLock(p, c) ==
    /\ runpc[p][c] = "lock"
    /\ lock[p] = NoOne
    /\ lock' = [lock EXCEPT ![p] = c]
    /\ runpc' = [runpc EXCEPT ![p][c] = "recheck"]
    /\ UNCHANGED <<running, calls, task, held, tables, hist>>

\* Run without the re-check under the mutex: only the fast-path load gates.
RecheckSkipped(r) == FALSE
\* Line 40: the re-check under the mutex; TRUE means return without spawning.
Recheck(r) == r # 0

RunRecheck(p, c) ==
    /\ runpc[p][c] = "recheck"
    /\ runpc' = [runpc EXCEPT ![p][c] = IF Recheck(running[p]) THEN "unlock" ELSE "incr"]
    /\ hist' = [hist EXCEPT !.dropped = IF running[p] # 0 THEN @ \cup {"recheck"} ELSE @]
    /\ UNCHANGED <<running, lock, calls, task, held, tables>>

\* Line 44: atomic.AddInt64(&a.running, 1).
RunIncr(p, c) ==
    /\ runpc[p][c] = "incr"
    /\ running' = [running EXCEPT ![p] = @ + 1]
    /\ runpc' = [runpc EXCEPT ![p][c] = "go"]
    /\ UNCHANGED <<lock, calls, task, held, tables, hist>>

\* Line 45: go func() {...}(): the goroutine exists from here on.
RunGo(p, c) ==
    /\ runpc[p][c] = "go"
    /\ \E s \in Slots :
        /\ task[<<p, s>>].pc = "none"
        /\ \A s2 \in Slots : task[<<p, s2>>].pc = "none" => s <= s2
        /\ task' = [task EXCEPT ![<<p, s>>] = [NoTask EXCEPT !.pc = "call"]]
    /\ runpc' = [runpc EXCEPT ![p][c] = "unlock"]
    /\ hist' = [hist EXCEPT !.spawned[p] = @ + 1]
    /\ UNCHANGED <<running, lock, calls, held, tables>>

\* Run keeps the mutex until the goroutine it (or an earlier call) started
\* has exited.
RunUnlockAfterTask(p, c) ==
    /\ runpc[p][c] = "unlock"
    /\ LiveTasks(p) = {}
    /\ lock' = [lock EXCEPT ![p] = NoOne]
    /\ runpc' = [runpc EXCEPT ![p][c] = "idle"]
    /\ UNCHANGED <<running, calls, task, held, tables, hist>>

\* Line 39: defer a.lock.Unlock(), then Run returns (it returns no value).
RunUnlock(p, c) ==
    /\ runpc[p][c] = "unlock"
    /\ lock' = [lock EXCEPT ![p] = NoOne]
    /\ runpc' = [runpc EXCEPT ![p][c] = "idle"]
    /\ UNCHANGED <<running, calls, task, held, tables, hist>>

\* One step of caller c inside (or entering) Run.
RunStep(p, c) ==
    \/ RunFast(p, c)
    \/ RunLock(p, c)
    \/ RunRecheck(p, c)
    \/ RunIncr(p, c)
    \/ RunGo(p, c)
    \/ RunUnlock(p, c)

\* ---------------------------------------------------------- Accumulate

\* The transaction's buffers and the batch's locals, dropped when a pass
\* returns (RollbackUnlessCommitted, or after Commit).
EndPass(tk) ==
    [tk EXCEPT !.rowdata = <<>>, !.ri = 1, !.balances = <<>>, !.bi = 1,
               !.ids = <<>>, !.ins = {}, !.upd = <<>>, !.flg = {}]

\* The inner loops break after every batch.
BreakAlways(cnt) == FALSE
\* Lines 77, 89, 101: the inner loop repeats the pass unless cnt < RowLintValue.
InnerLoopAgain(cnt) == ~(cnt < RowLintValue)

\* Accumulate without its loops: every pass runs one batch, and after the
\* transaction pass Accumulate returns nil.
AfterPassSingleSweep(tk, cnt) ==
    IF tk.typ = processTypeOut
    THEN [EndPass(tk) EXCEPT !.pc = "claim", !.typ = processTypeIn]
    ELSE IF tk.typ = processTypeIn
    THEN [EndPass(tk) EXCEPT !.pc = "claim", !.typ = processTypeTx]
    ELSE [EndPass(tk) EXCEPT !.pc = "ret", !.err = NoError, !.typ = processTypeOut]
\* A short batch returns nil from Accumulate: return in place of break.
AfterPassReturnsOnShort(tk, cnt) ==
    LET ic == IF cnt > 0 THEN 0 ELSE tk.icnt
        e == EndPass(tk)
    IN  IF InnerLoopAgain(cnt)
        THEN [e EXCEPT !.icnt = ic, !.pc = "claim"]
        ELSE [e EXCEPT !.icnt = ic, !.pc = "ret", !.err = NoError, !.typ = processTypeOut]
\* The outer loop tests icnt <= 10 after the increment.
AfterPassOffByOne(tk, cnt) ==
    LET ic == IF cnt > 0 THEN 0 ELSE tk.icnt
        e == EndPass(tk)
    IN  IF InnerLoopAgain(cnt)
        THEN [e EXCEPT !.icnt = ic, !.pc = "claim"]
        ELSE IF tk.typ = processTypeOut
        THEN [e EXCEPT !.icnt = ic, !.pc = "claim", !.typ = processTypeIn]
        ELSE IF tk.typ = processTypeIn
        THEN [e EXCEPT !.icnt = ic, !.pc = "claim", !.typ = processTypeTx]
        ELSE IF ic + 1 <= MaxIdle
        THEN [e EXCEPT !.icnt = ic + 1, !.pc = "claim", !.typ = processTypeOut]
        ELSE [e EXCEPT !.icnt = ic + 1, !.pc = "ret", !.err = NoError,
                       !.typ = processTypeOut]
\* Lines 70-105 after a pass returned (cnt, nil): reset of icnt on progress,
\* the inner loop's break, the next pass, and the outer loop's icnt++ and test.
AfterPass(tk, cnt) ==
    LET ic == IF cnt > 0 THEN 0 ELSE tk.icnt
        e == EndPass(tk)
    IN  IF InnerLoopAgain(cnt)
        THEN [e EXCEPT !.icnt = ic, !.pc = "claim"]
        ELSE IF tk.typ = processTypeOut
        THEN [e EXCEPT !.icnt = ic, !.pc = "claim", !.typ = processTypeIn]
        ELSE IF tk.typ = processTypeIn
        THEN [e EXCEPT !.icnt = ic, !.pc = "claim", !.typ = processTypeTx]
        ELSE IF ic + 1 < MaxIdle
        THEN [e EXCEPT !.icnt = ic + 1, !.pc = "claim", !.typ = processTypeOut]
        ELSE [e EXCEPT !.icnt = ic + 1, !.pc = "ret", !.err = NoError,
                       !.typ = processTypeOut]

\* The failed pass returns without a rollback: the writes of its transaction
\* stay pending on the session.
PassErrorKeepsWrites(tk, e) ==
    [tk EXCEPT !.pc = "ret", !.err = e, !.typ = processTypeOut, !.cnt = 0]
\* Lines 71-73, 83-85, 95-97: a pass returned (0, err); Accumulate returns err.
PassError(tk, e) ==
    [EndPass(tk) EXCEPT !.pc = "ret", !.err = e, !.typ = processTypeOut, !.cnt = 0]

\* The pass counts the rows it flagged, not the rows it claimed.
PassCountFlagged(tk) == Cardinality(tk.flg)
\* Lines 254 and 342: return len(rowdata), nil.
PassCount(tk) == Len(tk.rowdata)

\* Lines 155-157, 254, 281-283, 342 and 70-105: a pass returns (n, nil) to
\* Accumulate, whose loop control runs on it.  The task also keeps account
\* of what happened: the count the pass reported (cnt), whether a batch of
\* the current outer iteration claimed a row (prog), whether any batch of
\* this call did (ever), and the number of consecutive outer iterations
\* completed without a claimed row (idle).
PassReturn(tk, n) ==
    LET nxt == AfterPass(tk, n)
        p == tk.prog \/ n > 0
        ends == tk.typ = processTypeTx /\ nxt.typ = processTypeOut
    IN  [nxt EXCEPT !.cnt = n,
                    !.ever = tk.ever \/ n > 0,
                    !.prog = IF ends THEN FALSE ELSE p,
                    !.idle = IF ~ends THEN tk.idle ELSE IF p THEN 0 ELSE tk.idle + 1]

\* Line 51 and lines 64-68: the goroutine invokes Accumulate; icnt := 0.
AccumulateCall(t) ==
    /\ task[t].pc = "call"
    /\ task' = [task EXCEPT ![t] = [@ EXCEPT !.pc = "claim", !.err = NoError,
                                             !.icnt = 0, !.typ = processTypeOut,
                                             !.attempts = @ + 1,
                                             !.idle = 0, !.prog = FALSE,
                                             !.ever = FALSE]]
    /\ UNCHANGED <<runner, held, tables, hist>>

\* ------------------------------------------------------- processOutputs

\* The IN claim joins avm_outputs only, like the OUT claim.
MatchesOutputsOnly(typ, row) ==
    /\ row \in DOMAIN output_addresses_accumulate
    /\ row[1] \in DOMAIN avm_outputs
    /\ IF typ = processTypeOut
       THEN output_addresses_accumulate[row].processed_out = 0
       ELSE output_addresses_accumulate[row].processed_in = 0
\* The where clause and joins of the claim query of an output pass.
Matches(typ, row) ==
    /\ row \in DOMAIN output_addresses_accumulate
    /\ row[1] \in DOMAIN avm_outputs
    /\ IF typ = processTypeOut
       THEN output_addresses_accumulate[row].processed_out = 0
       ELSE /\ row[1] \in avm_outputs_redeeming
            /\ output_addresses_accumulate[row].processed_in = 0

\* Lines 124-153: the rows the claim query returns: the first RowLintValue
\* matching rows in primary-key order.
ClaimedOutputs(typ) ==
    LET m == SelectSeq(OaaRows, LAMBDA r : Matches(typ, r))
    IN  SubSeq(m, 1, Min(RowLintValue, Len(m)))

\* The claim query as a plain read: it takes no row locks and waits for none.
NoRowLocks(t, rows) == {}
\* "for update": the locks the claim takes on the staging rows it returns.
ForUpdate(t, rows) == {OaaLock(r) : r \in rows}

\* Lines 118-157: Begin and the claim query.  The query waits while a row it
\* would return is locked by another transaction.
ClaimOutputs(t) ==
    LET tk == task[t]
        rd == ClaimedOutputs(tk.typ)
        lk == ForUpdate(t, Range(rd))
    IN  /\ tk.pc = "claim"
        /\ tk.typ \in {processTypeOut, processTypeIn}
        /\ \A l \in lk : ~LockedByOther(t, l)
        /\ IF Len(rd) = 0
           THEN /\ task' = [task EXCEPT ![t] = PassReturn(tk, 0)]
                /\ UNCHANGED held
           ELSE /\ task' = [task EXCEPT ![t] =
                                [tk EXCEPT !.pc = "agg", !.rowdata = rd, !.ri = 1]]
                /\ held' = [held EXCEPT ![t] = @ \cup lk]
        /\ UNCHANGED <<runner, tables, hist>>

\* Lines 162-172: the aggregation over avm_outputs joined with
\* avm_output_addresses for one (id, address), grouped by chain, address, asset.
Aggregate(row) ==
    IF row[1] \in DOMAIN avm_outputs /\ row \in avm_output_addresses
    THEN << [id |-> <<>>,
             chain_id |-> avm_outputs[row[1]].chain_id,
             address |-> row[2],
             asset_id |-> avm_outputs[row[1]].asset_id,
             transaction_count |-> 1,
             total_received |-> avm_outputs[row[1]].amount,
             total_sent |-> avm_outputs[row[1]].amount] >>
    ELSE <<>>

\* The position after the per-row body for row ri: the next row, or Commit.
NextRow(tk) ==
    IF tk.ri < Len(tk.rowdata)
    THEN [tk EXCEPT !.pc = "agg", !.ri = @ + 1, !.balances = <<>>, !.bi = 1, !.ids = <<>>]
    ELSE [tk EXCEPT !.pc = "commit", !.ri = @ + 1, !.balances = <<>>, !.bi = 1, !.ids = <<>>]

\* The skip leaves the loop over the claimed rows: break, not continue.
SkipBreaks(tk) ==
    [tk EXCEPT !.pc = "commit", !.ri = Len(tk.rowdata) + 1, !.balances = <<>>,
               !.bi = 1, !.ids = <<>>]
\* Lines 177-180: the row with the empty aggregation is skipped: continue.
SkipRow(tk) == NextRow(tk)

\* Lines 159-180: aggregate for the claimed row; an empty result is logged at
\* info and the row skipped.
AggregateRow(t) ==
    LET tk == task[t]
        bs == Aggregate(tk.rowdata[tk.ri])
    IN  /\ tk.pc = "agg"
        /\ task' = [task EXCEPT ![t] =
                IF Len(bs) = 0 THEN SkipRow(tk)
                ELSE [tk EXCEPT !.pc = "ins", !.balances = bs, !.bi = 1, !.ids = <<>>]]
        /\ hist' = [hist EXCEPT !.infos = IF Len(bs) = 0 THEN 1 ELSE @]
        /\ UNCHANGED <<runner, held, tables>>

\* Persist.InsertAccumulateBalances inside the transaction: a duplicate key
\* is a no-op; a new row is created in the transaction and locked by it.
\* The statement waits while another transaction holds the key's lock.
InsertAccumulateBalances(t, id) ==
    /\ ~LockedByOther(t, BalLock(id))
    /\ IF id \in DOMAIN accumulate_balances \/ id \in task[t].ins
       THEN UNCHANGED held
       ELSE held' = [held EXCEPT ![t] = @ \cup {BalLock(id)}]

\* The transaction's set of rows it created, after inserting id.
Inserted(t, id) ==
    IF id \in DOMAIN accumulate_balances THEN task[t].ins ELSE task[t].ins \cup {id}

\* Lines 183-194: ComputeID and the idempotent insert for balance bi.
InsertBalance(t) ==
    LET tk == task[t]
        b == tk.balances[tk.bi]
        id == ComputeID(b.chain_id, b.asset_id, b.address)
    IN  /\ tk.pc = "ins"
        /\ InsertAccumulateBalances(t, id)
        /\ task' = [task EXCEPT ![t] =
                [tk EXCEPT !.balances[tk.bi].id = id,
                           !.ids = Append(@, id),
                           !.ins = Inserted(t, id),
                           !.bi = IF tk.bi < Len(tk.balances) THEN @ + 1 ELSE 1,
                           !.pc = IF tk.bi < Len(tk.balances) THEN "ins" ELSE "locksel"]]
        /\ UNCHANGED <<runner, tables, hist>>

\* Lines 196-204 and 305-313: select id from accumulate_balances where id in ?
\* for update.  Waits while another transaction holds one of the keys.
LockBalances(t) ==
    LET tk == task[t]
        lk == {BalLock(id) : id \in Range(tk.ids)}
    IN  /\ tk.pc = "locksel"
        /\ \A l \in lk : ~LockedByOther(t, l)
        /\ held' = [held EXCEPT ![t] = @ \cup lk]
        /\ task' = [task EXCEPT ![t] = [tk EXCEPT !.pc = "upd", !.bi = 1]]
        /\ UNCHANGED <<runner, tables, hist>>

\* The IN pass moves the counters of the OUT pass.
DeltaAlwaysOut(typ, b) ==
    [id |-> b.id, utxo_count |-> 1, total_received |-> b.total_received,
     total_sent |-> 0, transaction_count |-> 0]
\* The OUT pass also applies the aggregation's transaction_count.
DeltaWithTxCount(typ, b) ==
    IF typ = processTypeOut
    THEN [id |-> b.id, utxo_count |-> 1, total_received |-> b.total_received,
          total_sent |-> 0, transaction_count |-> b.transaction_count]
    ELSE IF typ = processTypeIn
    THEN [id |-> b.id, utxo_count |-> -1, total_received |-> 0,
          total_sent |-> b.total_sent, transaction_count |-> 0]
    ELSE [id |-> b.id, utxo_count |-> 0, total_received |-> 0,
          total_sent |-> 0, transaction_count |-> 1]
\* Lines 207-230 and 316-321: the counter update of one balance, by pass.
Delta(typ, b) ==
    IF typ = processTypeOut
    THEN [id |-> b.id, utxo_count |-> 1, total_received |-> b.total_received,
          total_sent |-> 0, transaction_count |-> 0]
    ELSE IF typ = processTypeIn
    THEN [id |-> b.id, utxo_count |-> -1, total_received |-> 0,
          total_sent |-> b.total_sent, transaction_count |-> 0]
    ELSE [id |-> b.id, utxo_count |-> 0, total_received |-> 0,
          total_sent |-> 0, transaction_count |-> 1]

\* The balances table with one update statement applied ("where id=?"
\* touches no row when the key is absent).
ApplyDelta(bal, d) ==
    IF d.id \in DOMAIN bal
    THEN [bal EXCEPT ![d.id] =
            [utxo_count |-> @.utxo_count + d.utxo_count,
             total_received |-> @.total_received + d.total_received,
             total_sent |-> @.total_sent + d.total_sent,
             transaction_count |-> @.transaction_count + d.transaction_count]]
    ELSE bal

\* The position after the update of balance bi: the next balance, or the
\* flag update (of the row for an output pass, of the first row for the
\* transaction pass).
AfterUpdate(tk) ==
    IF tk.bi < Len(tk.balances)
    THEN [tk EXCEPT !.bi = @ + 1]
    ELSE [tk EXCEPT !.bi = 1, !.pc = "flag",
                    !.ri = IF tk.typ = processTypeTx THEN 1 ELSE @]

\* The update statement runs on the session, outside the transaction: it is
\* committed at once and touches only rows already committed.
UpdateAutocommit(t, d) ==
    /\ accumulate_balances' = ApplyDelta(accumulate_balances, d)
    /\ UNCHANGED <<output_addresses_accumulate, output_txs_accumulate, avm_outputs,
                   avm_output_addresses, avm_outputs_redeeming>>
    /\ task' = [task EXCEPT ![t] = AfterUpdate(@)]
\* dbTx.UpdateBySql(...).ExecContext: the update joins the transaction's
\* uncommitted writes.
UpdateInTx(t, d) ==
    /\ UNCHANGED tables
    /\ task' = [task EXCEPT ![t] = AfterUpdate([@ EXCEPT !.upd = Append(@, d)])]

\* Lines 206-231 and 315-325: the counter update for balance bi.
UpdateBalance(t) ==
    LET tk == task[t]
    IN  /\ tk.pc = "upd"
        /\ UpdateInTx(t, Delta(tk.typ, tk.balances[tk.bi]))
        /\ UNCHANGED <<runner, held, hist>>

\* The flag an output pass sets, as <<pass, row key>>.
FlagOf(tk) ==
    IF tk.typ = processTypeTx THEN <<processTypeTx, tk.rowdata[tk.ri].id>>
    ELSE <<tk.typ, tk.rowdata[tk.ri]>>

\* Lines 233-247: set processed_out / processed_in of the claimed row.
FlipFlag(t) ==
    LET tk == task[t]
    IN  /\ tk.pc = "flag"
        /\ tk.typ \in {processTypeOut, processTypeIn}
        /\ task' = [task EXCEPT ![t] = NextRow([tk EXCEPT !.flg = @ \cup {FlagOf(tk)}])]
        /\ UNCHANGED <<runner, held, tables, hist>>

\* -------------------------------------------------- processTransactions

\* Lines 271-279: the rows the claim query returns: the first RowLintValue
\* rows with processed = 0, in primary-key order.
ClaimedTxs ==
    LET m == SelectSeq(OtaIds, LAMBDA i : /\ i \in DOMAIN output_txs_accumulate
                                          /\ output_txs_accumulate[i].processed = 0)
    IN  [k \in 1..Min(RowLintValue, Len(m)) |->
            [id |-> m[k],
             chain_id |-> output_txs_accumulate[m[k]].chain_id,
             asset_id |-> output_txs_accumulate[m[k]].asset_id,
             address |-> output_txs_accumulate[m[k]].address,
             transaction_id |-> output_txs_accumulate[m[k]].transaction_id]]

\* Lines 265-283: Begin and the claim query, which waits while a row it would
\* return is locked by another transaction.
ClaimTxs(t) ==
    LET tk == task[t]
        rd == ClaimedTxs
        lk == {OtaLock(rd[k].id) : k \in 1..Len(rd)}
    IN  /\ tk.pc = "claim"
        /\ tk.typ = processTypeTx
        /\ \A l \in lk : ~LockedByOther(t, l)
        /\ IF Len(rd) = 0
           THEN /\ task' = [task EXCEPT ![t] = PassReturn(tk, 0)]
                /\ UNCHANGED held
           ELSE /\ task' = [task EXCEPT ![t] =
                                [tk EXCEPT !.pc = "txins", !.rowdata = rd, !.ri = 1,
                                           !.balances = <<>>, !.ids = <<>>]]
                /\ held' = [held EXCEPT ![t] = @ \cup lk]
        /\ UNCHANGED <<runner, tables, hist>>

\* One balance per distinct key: a key already in the list is not appended.
AppendDistinct(balances, b) ==
    IF \E k \in 1..Len(balances) : balances[k].id = b.id
    THEN balances ELSE Append(balances, b)
\* Line 302: balances = append(balances, b), one b per claimed row.
AppendBalance(balances, b) == Append(balances, b)

\* Lines 287-303: for claimed row ri, build the balance, ComputeID, the
\* idempotent insert, and append.
TxInsertBalance(t) ==
    LET tk == task[t]
        row == tk.rowdata[tk.ri]
        id == ComputeID(row.chain_id, row.asset_id, row.address)
        b == [id |-> id, chain_id |-> row.chain_id, asset_id |-> row.asset_id,
              address |-> row.address, transaction_count |-> 0,
              total_received |-> 0, total_sent |-> 0]
    IN  /\ tk.pc = "txins"
        /\ InsertAccumulateBalances(t, id)
        /\ task' = [task EXCEPT ![t] =
                [tk EXCEPT !.balances = AppendBalance(@, b),
                           !.ids = Append(@, id),
                           !.ins = Inserted(t, id),
                           !.ri = IF tk.ri < Len(tk.rowdata) THEN @ + 1 ELSE 1,
                           !.pc = IF tk.ri < Len(tk.rowdata) THEN "txins" ELSE "locksel"]]
        /\ UNCHANGED <<runner, tables, hist>>

\* Lines 327-336: set processed = 1 of claimed row ri.
TxFlipFlag(t) ==
    LET tk == task[t]
    IN  /\ tk.pc = "flag"
        /\ tk.typ = processTypeTx
        /\ task' = [task EXCEPT ![t] =
                [tk EXCEPT !.flg = @ \cup {FlagOf(tk)},
                           !.ri = @ + 1,
                           !.pc = IF tk.ri < Len(tk.rowdata) THEN "flag" ELSE "commit"]]
        /\ UNCHANGED <<runner, held, tables, hist>>

\* ------------------------------------------------- commit and rollback

RECURSIVE ApplyAll(_, _)
\* The balances table with a sequence of update statements applied in order.
ApplyAll(bal, ds) ==
    IF Len(ds) = 0 THEN bal ELSE ApplyAll(ApplyDelta(bal, Head(ds)), Tail(ds))

\* The balances table after the transaction's inserts and updates.
CommittedBalances(tk) ==
    LET new == tk.ins \ DOMAIN accumulate_balances
        seeded == [k \in DOMAIN accumulate_balances \cup new |->
                     IF k \in DOMAIN accumulate_balances
                     THEN accumulate_balances[k] ELSE ZeroBalance]
    IN  ApplyAll(seeded, tk.upd)

\* The largest number of rows of a transaction batch that share a balance key.
Multiplicity(rows) ==
    LET key(k) == ComputeID(rows[k].chain_id, rows[k].asset_id, rows[k].address)
        n(k) == Cardinality({j \in 1..Len(rows) : key(j) = key(k)})
    IN  IF \E k \in 1..Len(rows) : n(k) >= 2 THEN 2 ELSE 1

\* Lines 250-254 and 338-342: Commit.  The transaction's writes reach the
\* tables together, its locks are released and the pass returns len(rowdata).
Commit(t) ==
    LET tk == task[t]
    IN  /\ tk.pc = "commit"
        /\ accumulate_balances' = CommittedBalances(tk)
        /\ output_addresses_accumulate' =
              [r \in DOMAIN output_addresses_accumulate |->
                 [processed_out |->
                    IF <<processTypeOut, r>> \in tk.flg THEN 1
                    ELSE output_addresses_accumulate[r].processed_out,
                  processed_in |->
                    IF <<processTypeIn, r>> \in tk.flg THEN 1
                    ELSE output_addresses_accumulate[r].processed_in]]
        /\ output_txs_accumulate' =
              [i \in DOMAIN output_txs_accumulate |->
                 IF <<processTypeTx, i>> \in tk.flg
                 THEN [output_txs_accumulate[i] EXCEPT !.processed = 1]
                 ELSE output_txs_accumulate[i]]
        /\ UNCHANGED <<avm_outputs, avm_output_addresses, avm_outputs_redeeming>>
        /\ held' = [held EXCEPT ![t] = {}]
        /\ task' = [task EXCEPT ![t] = PassReturn(tk, PassCount(tk))]
        /\ hist' = [hist EXCEPT
              !.flips = [f \in DOMAIN @ |-> IF f \in tk.flg THEN @[f] + 1 ELSE @[f]],
              !.mult = IF tk.typ = processTypeTx /\ Multiplicity(tk.rowdata) > @
                       THEN Multiplicity(tk.rowdata) ELSE @]
        /\ UNCHANGED runner

\* Positions of a task at a database statement of an open pass.
InPass(tk) == tk.pc \in {"claim", "agg", "ins", "txins", "locksel", "upd", "flag", "commit"}

\* A statement of the pass returns error e: RollbackUnlessCommitted drops the
\* transaction's writes and locks, and the pass returns (0, e).
Rollback(t, e) ==
    /\ held' = [held EXCEPT ![t] = {}]
    /\ task' = [task EXCEPT ![t] = PassError(task[t], e)]
    /\ UNCHANGED <<runner, tables>>

\* The store fails the task's current statement (Begin, a query, an update
\* or Commit) with one of the driver's errors.
StmtError(t) ==
    /\ InPass(task[t])
    /\ hist.faults < MaxFaults
    /\ \E e \in ErrorMessages : Rollback(t, e)
    /\ hist' = [hist EXCEPT !.faults = @ + 1,
                            !.aborted = IF task[t].flg = {} THEN @
                                        ELSE IF task[t].pc = "commit" THEN 2
                                        ELSE IF @ = 0 THEN 1 ELSE @]

\* The locks the task's current statement is waiting for.
WaitsFor(t) ==
    LET tk == task[t]
    IN  IF tk.pc = "claim" /\ tk.typ = processTypeTx
          THEN {OtaLock(ClaimedTxs[k].id) : k \in 1..Len(ClaimedTxs)}
        ELSE IF tk.pc = "claim"
          THEN ForUpdate(t, Range(ClaimedOutputs(tk.typ)))
        ELSE IF tk.pc = "ins"
          THEN LET b == tk.balances[tk.bi]
               IN {BalLock(ComputeID(b.chain_id, b.asset_id, b.address))}
        ELSE IF tk.pc = "txins"
          THEN LET r == tk.rowdata[tk.ri]
               IN {BalLock(ComputeID(r.chain_id, r.asset_id, r.address))}
        ELSE IF tk.pc = "locksel"
          THEN {BalLock(id) : id \in Range(tk.ids)}
        ELSE {}

\* t waits for a lock that u holds.
Blocks(u, t) == WaitsFor(t) \cap held[u] # {}

\* The store finds a cycle of waiting transactions and fails one of them
\* with its deadlock error.
DeadlockVictim(t) ==
    /\ InPass(task[t])
    /\ hist.faults < MaxFaults
    /\ \E u \in Tasks \ {t} : Blocks(u, t) /\ Blocks(t, u)
    /\ Rollback(t, DeadlockError)
    /\ hist' = [hist EXCEPT !.faults = @ + 1,
                            !.aborted = IF task[t].flg = {} THEN @
                                        ELSE IF task[t].pc = "commit" THEN 2
                                        ELSE IF @ = 0 THEN 1 ELSE @]

\* ------------------------------------------------- the goroutine's loop

\* No retry: the loop is left after every attempt.
RetryNever(err) == FALSE
\* Every error is retried, not only the deadlock.
RetryAnyError(err) == err # NoError
\* Line 52: retry iff err != nil and its message contains the deadlock text.
Retry(err) == ~(err = NoError \/ ~Contains(err, DeadlockDBErrorMessage))

\* Lines 52-59: Accumulate returned.  A deadlock error goes to the sleep and
\* a new attempt; anything else leaves the loop, a non-nil error is logged
\* at warning level.  The history notes a run that a non-deadlock error ended
\* after it had committed batches and before it had claimed every row.
AccumulateReturn(t) ==
    LET tk == task[t]
    IN  /\ tk.pc = "ret"
        /\ task' = [task EXCEPT ![t] =
                LET counted == [tk EXCEPT
                        !.deadlocks = IF Contains(tk.err, <<"Deadlock", "found">>)
                                      THEN @ + 1 ELSE @,
                        !.others = IF tk.err # NoError
                                      /\ ~Contains(tk.err, <<"Deadlock", "found">>)
                                   THEN @ + 1 ELSE @]
                IN  IF Retry(tk.err)
                    THEN [counted EXCEPT !.pc = "sleep"]
                    ELSE [counted EXCEPT !.pc = "exit",
                                         !.warns = IF tk.err # NoError THEN @ + 1 ELSE @]]
        /\ hist' = [hist EXCEPT
              !.completed = IF tk.err = NoError THEN Min(@ + 1, 2) ELSE @,
              !.snap = IF tk.err = NoError /\ hist.completed = 0 THEN tables ELSE @,
              !.partial = IF /\ tk.err # NoError
                             /\ ~Contains(tk.err, <<"Deadlock", "found">>)
                             /\ tk.ever
                             /\ \E f \in DOMAIN hist.flips : hist.flips[f] >= 1
                             /\ \/ \E r \in Range(OaaRows) :
                                      Matches(processTypeOut, r) \/ Matches(processTypeIn, r)
                                \/ Len(ClaimedTxs) > 0
                          THEN 1 ELSE @]
        /\ UNCHANGED <<runner, held, tables>>

\* Line 55: time.Sleep(1 * time.Millisecond), then the loop's next attempt.
Sleep(t) ==
    /\ task[t].pc = "sleep"
    /\ task' = [task EXCEPT ![t] = [@ EXCEPT !.pc = "call"]]
    /\ UNCHANGED <<runner, held, tables, hist>>

\* The decrement sits at the end of the goroutine, reached only without error.
ReleaseOnSuccess(r, err) == IF err = NoError THEN r - 1 ELSE r
\* Lines 46-48: the deferred atomic.AddInt64(&a.running, -1).
Release(r, err) == r - 1

\* The goroutine ends: the deferred decrement runs.
TaskExit(t) ==
    /\ task[t].pc = "exit"
    /\ running' = [running EXCEPT ![t[1]] = Release(@, task[t].err)]
    /\ task' = [task EXCEPT ![t] = NoTask]
    /\ hist' = [hist EXCEPT !.exits = @ \cup {IF task[t].err = NoError THEN "ok" ELSE "err"}]
    /\ UNCHANGED <<lock, runpc, calls, held, tables>>

\* ------------------------------------------------------- initial states

\* The outputs upstream ingestion knows: output 1 is owned by A and B,
\* output 2 by A; all of one chain and asset.
Outputs ==
    (1 :> [chain_id |-> "C", asset_id |-> "S", transaction_id |-> "tx1", amount |-> 10])
    @@ (2 :> [chain_id |-> "C", asset_id |-> "S", transaction_id |-> "tx2", amount |-> 5])

\* The (transaction, address) participations upstream ingestion knows.
OutputTxs ==
    (1 :> [chain_id |-> "C", asset_id |-> "S", address |-> "B",
           transaction_id |-> "tx1", processed |-> 0])
    @@ (2 :> [chain_id |-> "C", asset_id |-> "S", address |-> "A",
              transaction_id |-> "tx1", processed |-> 0])
    @@ (3 :> [chain_id |-> "C", asset_id |-> "S", address |-> "A",
              transaction_id |-> "tx2", processed |-> 0])

AllFlags ==
    {<<processTypeOut, r>> : r \in Range(OaaRows)}
    \cup {<<processTypeIn, r>> : r \in Range(OaaRows)}
    \cup {<<processTypeTx, i>> : i \in Range(OtaIds)}

Restrict(f, S) == [x \in S |-> f[x]]

\* The handler and the goroutines after construction: nothing runs.
InitHandlers(budget) ==
    /\ running = [p \in Procs |-> 0]
    /\ lock = [p \in Procs |-> NoOne]
    /\ runpc = [p \in Procs |-> [c \in Callers |-> "idle"]]
    /\ calls = budget
    /\ task = [t \in Tasks |-> NoTask]
    /\ held = [t \in Tasks |-> {}]
    /\ hist = [spawned |-> [p \in Procs |-> 0], dropped |-> {}, exits |-> {},
               faults |-> 0, aborted |-> 0, infos |-> 0, completed |-> 0,
               snap |-> <<>>, mult |-> 0, partial |-> 0,
               flips |-> [f \in AllFlags |-> 0]]

\* A freshly ingested database: all flags 0, no aggregate row.
InitTables(rows, outs, addrs, redeemed, txs) ==
    /\ output_addresses_accumulate =
          [r \in rows |-> [processed_out |-> 0, processed_in |-> 0]]
    /\ output_txs_accumulate = Restrict(OutputTxs, txs)
    /\ avm_outputs = Restrict(Outputs, outs)
    /\ avm_output_addresses = addrs
    /\ avm_outputs_redeeming = redeemed
    /\ accumulate_balances = <<>>

\* One process whose two caller threads race on Run (the first calls it
\* MaxCalls times, the second once), a store that can fail statements, and
\* a small workload: one output that is redeemed, one transaction row.
InitRun ==
    /\ InitHandlers([p \in Procs |-> [c \in Callers |->
                        IF p # 1 THEN 0 ELSE IF c = 1 THEN MaxCalls ELSE 1]])
    /\ InitTables({<<1, "A">>}, {1}, {<<1, "A">>}, {1}, {2})

\* One process with one caller thread that calls Run again and again, a
\* store that can fail statements, and the staging tables filled before the
\* first Run: with or without the avm_outputs row of output 2, the address
\* row of (1, B), redemptions, and transaction row 1.
InitAcc ==
    /\ InitHandlers([p \in Procs |-> [c \in Callers |->
                        IF p = 1 /\ c = 1 THEN MaxRuns ELSE 0]])
    /\ \E outs \in {{1, 2}, {1}},
          addrs \in {Range(OaaRows), Range(OaaRows) \ {<<1, "B">>}},
          redeemed \in {{}, {1}, {1, 2}},
          txs \in {{1, 2, 3}, {2, 3}} :
            InitTables(Range(OaaRows), outs, addrs, redeemed, txs)

\* Two processes, each started once by its own caller, against one store
\* without injected failures.  The transaction rows are there from the
\* start; upstream ingestion inserts output 1 and its redemption later.
InitConc ==
    /\ InitHandlers([p \in Procs |-> [c \in Callers |-> IF c = 1 THEN 1 ELSE 0]])
    /\ InitTables({}, {}, {}, {}, {1, 2})

\* ------------------------------------------------------------ ingestion

\* Upstream ingestion inserts output id: its avm_outputs row, its address
\* rows and its staging rows, in one transaction.
IngestOutput(id) ==
    LET rows == {r \in Range(OaaRows) : r[1] = id}
    IN  /\ id \in DOMAIN Outputs
        /\ id \notin DOMAIN avm_outputs
        /\ avm_outputs' = (id :> Outputs[id]) @@ avm_outputs
        /\ avm_output_addresses' = avm_output_addresses \cup rows
        /\ output_addresses_accumulate' =
              [r \in rows |-> [processed_out |-> 0, processed_in |-> 0]]
              @@ output_addresses_accumulate
        /\ UNCHANGED <<runner, task, held, hist, output_txs_accumulate,
                       avm_outputs_redeeming, accumulate_balances>>

\* Upstream ingestion inserts the redemption record of output id, which it
\* has ingested before.
IngestRedeem(id) ==
    /\ id \in DOMAIN avm_outputs
    /\ id \notin avm_outputs_redeeming
    /\ avm_outputs_redeeming' = avm_outputs_redeeming \cup {id}
    /\ UNCHANGED <<runner, task, held, hist, output_addresses_accumulate,
                   output_txs_accumulate, avm_outputs, avm_output_addresses,
                   accumulate_balances>>

\* One step of goroutine t outside failures.
TaskStep(t) ==
    \/ AccumulateCall(t)
    \/ ClaimOutputs(t)
    \/ AggregateRow(t)
    \/ InsertBalance(t)
    \/ LockBalances(t)
    \/ UpdateBalance(t)
    \/ FlipFlag(t)
    \/ ClaimTxs(t)
    \/ TxInsertBalance(t)
    \/ TxFlipFlag(t)
    \/ Commit(t)
    \/ AccumulateReturn(t)
    \/ Sleep(t)
    \/ TaskExit(t)

NextRun ==
    \/ \E p \in Procs, c \in Callers : RunCall(p, c)
    \/ \E p \in Procs, c \in Callers : RunStep(p, c)
    \/ \E t \in Tasks : TaskStep(t)
    \/ \E t \in Tasks : StmtError(t)

SpecRun == InitRun /\ [][NextRun]_vars
SpecAcc == InitAcc /\ [][NextRun]_vars

NextConc ==
    \/ \E p \in Procs, c \in Callers : RunCall(p, c)
    \/ \E p \in Procs, c \in Callers : RunStep(p, c)
    \/ \E t \in Tasks : TaskStep(t)
    \/ \E t \in Tasks : DeadlockVictim(t)
    \/ IngestOutput(1)
    \/ IngestRedeem(1)

SpecConc == InitConc /\ [][NextConc]_vars

\* The callers of Run are scheduled fairly; nothing is assumed about the
\* goroutines or the store, which may stall for ever.
SpecRunFair ==
    SpecRun /\ \A p \in Procs, c \in Callers : WF_vars(RunStep(p, c))

\* One step of goroutine t when no statement fails: the sleep before a
\* retry is never reached.
QuietStep(t) ==
    \/ AccumulateCall(t)
    \/ ClaimOutputs(t)
    \/ AggregateRow(t)
    \/ InsertBalance(t)
    \/ LockBalances(t)
    \/ UpdateBalance(t)
    \/ FlipFlag(t)
    \/ ClaimTxs(t)
    \/ TxInsertBalance(t)
    \/ TxFlipFlag(t)
    \/ Commit(t)
    \/ AccumulateReturn(t)
    \/ TaskExit(t)

NextQuiet ==
    \/ \E p \in Procs, c \in Callers : RunCall(p, c)
    \/ \E p \in Procs, c \in Callers : RunStep(p, c)
    \/ \E t \in Tasks : QuietStep(t)

\* One process on a store that never fails and that nobody else writes to,
\* over the workloads of InitAcc; the goroutine is scheduled fairly and the
\* store answers every statement.
SpecQuietFair ==
    /\ InitAcc
    /\ [][NextQuiet]_vars
    /\ \A t \in Tasks : WF_vars(QuietStep(t))

\* ================================================================ claims

\* C1: at most one accumulation task per handler.  In every reachable state
\* the running counter is 0 or 1, the goroutines alive plus the spawns
\* pending (counter incremented, goroutine not yet started) are at most one,
\* and a caller that got past the re-check did so with the counter at 0: a
\* Run call that sees a nonzero counter spawns nothing.
C1_AtMostOneTask ==
    \A p \in Procs :
        /\ running[p] \in {0, 1}
        /\ Cardinality(LiveTasks(p)) + Cardinality(PendingSpawns(p)) <= 1
        /\ \A c \in Callers : runpc[p][c] = "incr" => running[p] = 0 /\ LiveTasks(p) = {}

\* A Run call passed the fast path, waited for the mutex and was dropped by
\* the re-check while the one task was alive.
C1_Witness ==
    /\ "recheck" \in hist.dropped
    /\ hist.spawned[1] = 1
    /\ running[1] = 1
    /\ Cardinality(LiveTasks(1)) = 1

\* C2: the counter is the number of goroutines alive plus the spawns pending,
\* in every reachable state: when a goroutine has exited, after success or
\* after an error, its slot is free again and a later Run is admitted.
C2_SlotReleased ==
    \A p \in Procs :
        running[p] = Cardinality(LiveTasks(p)) + Cardinality(PendingSpawns(p))

\* A task ended with a non-deadlock error, and a Run call issued after that
\* was admitted and spawned the second task, which is alive.
C2_Witness ==
    /\ hist.exits = {"err"}
    /\ hist.spawned[1] = 2
    /\ running[1] = 1
    /\ LiveTasks(1) # {}

\* C3: every Run call returns, whatever the goroutine does: under fair
\* scheduling of the callers alone, a caller inside Run leaves it.
C3_RunReturns ==
    \A p \in Procs, c \in Callers : (runpc[p][c] # "idle") ~> (runpc[p][c] = "idle")

\* Both callers have returned from all their Run calls while the task one of
\* them spawned has not even begun its first Accumulate.
C3_Witness ==
    /\ \A c \in Callers : runpc[1][c] = "idle" /\ calls[1][c] = 0
    /\ \E s \in Slots : task[<<1, s>>].pc = "call" /\ task[<<1, s>>].attempts = 0

\* C4: a task none of whose attempts failed with a non-deadlock error exits
\* only after a successful attempt, without a warning, and has then made
\* exactly one attempt more than it met deadlocks.
C4_DeadlockRetry ==
    \A t \in Tasks :
        (task[t].pc = "exit" /\ task[t].others = 0) =>
            /\ task[t].err = NoError
            /\ task[t].attempts = task[t].deadlocks + 1
            /\ task[t].warns = 0

\* A task met as many deadlocks as the store may inject, succeeded on the
\* next attempt and is about to exit.
C4_Witness ==
    \E t \in Tasks :
        /\ task[t].pc = "exit"
        /\ task[t].err = NoError
        /\ task[t].deadlocks = MaxFaults
        /\ task[t].attempts = MaxFaults + 1

\* C5: once an attempt of a task has failed with a non-deadlock error, the
\* task is at its exit, has logged exactly one warning and has made no
\* attempt after the failed one.
C5_OtherErrorEnds ==
    \A t \in Tasks :
        task[t].others > 0 =>
            /\ task[t].pc = "exit"
            /\ task[t].others = 1
            /\ task[t].warns = 1
            /\ task[t].err # NoError
            /\ task[t].attempts = task[t].deadlocks + 1

\* A task retried a deadlock, then ran into the deadline and is at its exit
\* with the warning logged.
C5_Witness ==
    \E t \in Tasks :
        /\ task[t].pc = "exit"
        /\ task[t].err = TimeoutError
        /\ task[t].deadlocks = 1
        /\ task[t].warns = 1

\* ------------------------------------------- conservation (I4) notions

\* Every balance key of the universe.
BalanceKeys ==
    {ComputeID(Outputs[r[1]].chain_id, Outputs[r[1]].asset_id, r[2]) : r \in Range(OaaRows)}
    \cup {ComputeID(OutputTxs[i].chain_id, OutputTxs[i].asset_id, OutputTxs[i].address) :
            i \in Range(OtaIds)}

\* The balance key of a staging row of output_addresses_accumulate.
RowKey(r) == ComputeID(Outputs[r[1]].chain_id, Outputs[r[1]].asset_id, r[2])
\* The balance key of a row of output_txs_accumulate.
TxKey(i) == ComputeID(OutputTxs[i].chain_id, OutputTxs[i].asset_id, OutputTxs[i].address)

RECURSIVE SumAmount(_)
\* The sum of the amounts of the outputs of a set of staging rows.
SumAmount(rows) ==
    IF rows = {} THEN 0
    ELSE LET r == CHOOSE x \in rows : TRUE
         IN  Outputs[r[1]].amount + SumAmount(rows \ {r})

\* The committed counters of key k in balances table bal (all 0 without a row).
Counter(bal, k) == IF k \in DOMAIN bal THEN bal[k] ELSE ZeroBalance

\* The staging rows of key k with processed_out = 1, with processed_in = 1,
\* and the transaction rows of key k with processed = 1, in the given tables.
OutDone(oaa, k) == {r \in DOMAIN oaa : RowKey(r) = k /\ oaa[r].processed_out = 1}
InDone(oaa, k) == {r \in DOMAIN oaa : RowKey(r) = k /\ oaa[r].processed_in = 1}
TxDone(ota, k) == {i \in DOMAIN ota : TxKey(i) = k /\ ota[i].processed = 1}

\* C6: conservation of the output counters in every committed state, for
\* every balance key: total_received is the sum of the amounts of the key's
\* outputs with processed_out = 1, total_sent that of those with
\* processed_in = 1, utxo_count the number of the former minus the number of
\* the latter; and no aggregate row exists outside the balance keys.
C6_Conservation ==
    /\ DOMAIN accumulate_balances \subseteq BalanceKeys
    /\ \A k \in BalanceKeys :
        LET c == Counter(accumulate_balances, k)
            o == OutDone(output_addresses_accumulate, k)
            i == InDone(output_addresses_accumulate, k)
        IN  /\ c.total_received = SumAmount(o)
            /\ c.total_sent = SumAmount(i)
            /\ c.utxo_count = Cardinality(o) - Cardinality(i)

\* After a batch that failed with flag updates pending and was retried, key
\* (C, S, A) has received outputs 1 and 2 and sent output 1.
C6_Witness ==
    LET c == Counter(accumulate_balances, ComputeID("C", "S", "A"))
    IN  /\ hist.aborted > 0
        /\ c.total_received = 15
        /\ c.total_sent = 10
        /\ c.utxo_count = 1

\* C7: in every committed state transaction_count of every balance key is
\* the number of output_txs_accumulate rows with processed = 1 of that key,
\* so k rows of one batch with the same key raise it by k.
C7_TransactionCount ==
    \A k \in BalanceKeys :
        Counter(accumulate_balances, k).transaction_count
            = Cardinality(TxDone(output_txs_accumulate, k))

\* A committed batch held two rows of key (C, S, A), whose count is now 2.
C7_Witness ==
    /\ hist.mult = 2
    /\ Counter(accumulate_balances, ComputeID("C", "S", "A")).transaction_count = 2
    /\ Cardinality(TxDone(output_txs_accumulate, ComputeID("C", "S", "A"))) = 2

\* One step keeps flags and counters together: a failing statement changes
\* no table and leaves nothing of its transaction behind, and whatever a
\* step adds to a key's counters is exactly what the flags flipped in that
\* same step account for.
BatchAtomicStep ==
    /\ \A t \in Tasks :
         (InPass(task[t]) /\ task'[t].pc = "ret" /\ task'[t].err # NoError) =>
            /\ UNCHANGED tables
            /\ held'[t] = {}
            /\ task'[t].flg = {} /\ task'[t].upd = <<>> /\ task'[t].ins = {}
    /\ \A k \in BalanceKeys :
         LET c == Counter(accumulate_balances, k)
             d == Counter(accumulate_balances', k)
             o == OutDone(output_addresses_accumulate', k)
                    \ OutDone(output_addresses_accumulate, k)
             i == InDone(output_addresses_accumulate', k)
                    \ InDone(output_addresses_accumulate, k)
             x == TxDone(output_txs_accumulate', k) \ TxDone(output_txs_accumulate, k)
         IN  /\ d.total_received - c.total_received = SumAmount(o)
             /\ d.total_sent - c.total_sent = SumAmount(i)
             /\ d.utxo_count - c.utxo_count = Cardinality(o) - Cardinality(i)
             /\ d.transaction_count - c.transaction_count = Cardinality(x)

\* C8: a batch is all-or-nothing.  Every step of every behaviour either
\* leaves the tables alone or commits flag flips together with exactly the
\* counter deltas they induce; a pass that fails after claiming rows
\* changes no table and drops its pending writes and locks.
C8_BatchAtomic == [][BatchAtomicStep]_vars

\* A Commit failed with flag updates pending, and the tables show none of
\* that batch: the rows are still unprocessed.
C8_Witness ==
    /\ hist.aborted = 2
    /\ \A r \in DOMAIN output_addresses_accumulate :
          output_addresses_accumulate[r].processed_out = 0
    /\ accumulate_balances = <<>>

\* No flag of any staging row goes from 1 back to 0 in this step.
NoUnflipStep ==
    /\ \A r \in DOMAIN output_addresses_accumulate :
         /\ r \in DOMAIN output_addresses_accumulate'
         /\ output_addresses_accumulate[r].processed_out
              <= output_addresses_accumulate'[r].processed_out
         /\ output_addresses_accumulate[r].processed_in
              <= output_addresses_accumulate'[r].processed_in
    /\ \A i \in DOMAIN output_txs_accumulate :
         /\ i \in DOMAIN output_txs_accumulate'
         /\ output_txs_accumulate[i].processed <= output_txs_accumulate'[i].processed

\* Every flag was set by at most one committed transaction, and the counters
\* hold every flagged row's delta exactly once.
FlippedOnce ==
    /\ \A f \in AllFlags : hist.flips[f] <= 1
    /\ \A r \in DOMAIN output_addresses_accumulate :
         /\ hist.flips[<<processTypeOut, r>>] = output_addresses_accumulate[r].processed_out
         /\ hist.flips[<<processTypeIn, r>>] = output_addresses_accumulate[r].processed_in
    /\ \A i \in DOMAIN output_txs_accumulate :
         hist.flips[<<processTypeTx, i>>] = output_txs_accumulate[i].processed
    /\ \A k \in BalanceKeys :
        LET c == Counter(accumulate_balances, k)
            o == OutDone(output_addresses_accumulate, k)
            i == InDone(output_addresses_accumulate, k)
        IN  /\ c.total_received = SumAmount(o)
            /\ c.total_sent = SumAmount(i)
            /\ c.utxo_count = Cardinality(o) - Cardinality(i)
            /\ c.transaction_count = Cardinality(TxDone(output_txs_accumulate, k))

\* C9: with two processes running passes concurrently on one store whose
\* claim queries wait for locked rows, every flag is flipped by at most one
\* committed transaction, every flagged row's delta is in the counters
\* exactly once, and no flag returns from 1 to 0.
C9_SingleFlip == [](FlippedOnce) /\ [][NoUnflipStep]_vars

\* Both processes have a transaction open with locks held, one of them is
\* waiting for a lock of the other, and flags have been flipped already.
C9_Witness ==
    \E t \in Tasks, u \in Tasks :
        /\ t[1] # u[1]
        /\ held[t] # {} /\ held[u] # {}
        /\ Blocks(u, t)
        /\ \E f \in AllFlags : hist.flips[f] = 1

\* C10: when Accumulate has returned nil twice, the tables are those of its
\* first return: the second run changed no counter and no flag.
C10_SecondRunIdle == hist.completed = 2 => tables = hist.snap

\* The second run has completed on a database where the first one did work.
C10_Witness ==
    /\ hist.completed = 2
    /\ Counter(accumulate_balances, ComputeID("C", "S", "A")).total_received = 15
    /\ Counter(accumulate_balances, ComputeID("C", "S", "A")).transaction_count = 2

\* C11: termination of Accumulate.  Without ingestion and without database
\* errors, a goroutine that is inside a pass of Accumulate eventually sees
\* Accumulate return, also when a claimed row has an empty aggregation.
C11_AccumulateReturns ==
    \A t \in Tasks : InPass(task[t]) ~> (task[t].pc = "ret")

\* C12: utxo_count of every aggregate row is >= 0 in every committed state,
\* also while upstream ingestion inserts staging rows and redemption records
\* between the batches of a run.
C12_UtxoNonNegative ==
    \A k \in DOMAIN accumulate_balances : accumulate_balances[k].utxo_count >= 0

\* The staging rows a task holds as claimed or has flagged in its open
\* transaction, by pass.
ClaimedBy(t, typ) ==
    IF task[t].typ # typ THEN {}
    ELSE Range(task[t].rowdata) \cup {f[2] : f \in {g \in task[t].flg : g[1] = typ}}

\* C13: the joins gate the output passes.  In every reachable state a
\* staging row whose output has no avm_outputs_redeeming record has
\* processed_in = 0, was never flagged or claimed by an IN batch, and its
\* key owes nothing of total_sent or of a utxo_count decrement to it; a
\* staging row without avm_outputs row has both flags 0, is claimed by no
\* batch, and a key all of whose staging rows are such has the output
\* counters of a row never touched.
C13_JoinGates ==
    /\ \A r \in DOMAIN output_addresses_accumulate :
        /\ r[1] \notin avm_outputs_redeeming =>
              /\ output_addresses_accumulate[r].processed_in = 0
              /\ hist.flips[<<processTypeIn, r>>] = 0
              /\ \A t \in Tasks : r \notin ClaimedBy(t, processTypeIn)
        /\ r[1] \notin DOMAIN avm_outputs =>
              /\ output_addresses_accumulate[r] = [processed_out |-> 0, processed_in |-> 0]
              /\ hist.flips[<<processTypeOut, r>>] = 0
              /\ hist.flips[<<processTypeIn, r>>] = 0
              /\ \A t \in Tasks : r \notin ClaimedBy(t, processTypeOut)
                                   \cup ClaimedBy(t, processTypeIn)
    /\ \A k \in BalanceKeys :
        LET c == Counter(accumulate_balances, k)
            rows == {r \in DOMAIN output_addresses_accumulate : RowKey(r) = k}
        IN  /\ c.total_sent = SumAmount({r \in InDone(output_addresses_accumulate, k) :
                                            r[1] \in avm_outputs_redeeming})
            /\ (\A r \in rows : r[1] \notin avm_outputs_redeeming) =>
                  /\ c.total_sent = 0
                  /\ c.utxo_count = Cardinality(OutDone(output_addresses_accumulate, k))
            /\ (\A r \in rows : r[1] \notin DOMAIN avm_outputs) =>
                  c.utxo_count = 0 /\ c.total_received = 0 /\ c.total_sent = 0

\* A run has completed on a database where output 1 is not redeemed and
\* output 2 has no avm_outputs row: row (1, A) is out-processed only, row
\* (2, A) is untouched, and key (C, S, A) holds output 1 alone.
C13_Witness ==
    /\ hist.completed >= 1
    /\ avm_outputs_redeeming = {}
    /\ 2 \notin DOMAIN avm_outputs
    /\ output_addresses_accumulate[<<1, "A">>] = [processed_out |-> 1, processed_in |-> 0]
    /\ output_addresses_accumulate[<<2, "A">>] = [processed_out |-> 0, processed_in |-> 0]
    /\ Counter(accumulate_balances, ComputeID("C", "S", "A")).utxo_count = 1
    /\ Counter(accumulate_balances, ComputeID("C", "S", "A")).total_received = 10
    /\ Counter(accumulate_balances, ComputeID("C", "S", "A")).total_sent = 0

\* The staging rows the open transaction of t has claimed: the staging-row
\* locks it holds.
ClaimLocks(t) == {l \in held[t] : l[1] \in {"oaa", "ota"}}

\* One step respects the batch cap and reports the batch size: a claim
\* takes at most RowLintValue rows; a pass that commits reports the number
\* of rows its transaction claimed; a pass that claims nothing reports 0;
\* a pass that fails reports 0.
BatchCountStep ==
    \A t \in Tasks :
        LET failed == task'[t].pc = "ret" /\ task'[t].err # NoError
        IN  /\ (task[t].pc = "claim" /\ task'[t].pc \in {"agg", "txins"}) =>
                /\ Len(task'[t].rowdata) \in 1..RowLintValue
                /\ Cardinality(ClaimLocks(t)') = Len(task'[t].rowdata)
            /\ (task[t].pc = "commit" /\ task'[t] # task[t] /\ ~failed) =>
                /\ task'[t].cnt = Cardinality(ClaimLocks(t))
                /\ task'[t].cnt = Len(task[t].rowdata)
            /\ (task[t].pc = "claim" /\ task'[t] # task[t] /\ ~failed
                   /\ task'[t].pc \notin {"agg", "txins"}) =>
                /\ task'[t].cnt = 0
                /\ ClaimLocks(t) = {} /\ ClaimLocks(t)' = {}
            /\ (InPass(task[t]) /\ failed) => task'[t].cnt = 0

\* C14: no transaction of any pass holds more than RowLintValue claimed
\* staging rows, and every pass call reports as its count the number of rows
\* it claimed in its one transaction, skipped rows included.
C14_BatchBound ==
    /\ [](\A t \in Tasks : /\ Cardinality(ClaimLocks(t)) <= RowLintValue
                           /\ Len(task[t].rowdata) <= RowLintValue
                           /\ task[t].cnt \in 0..RowLintValue)
    /\ [][BatchCountStep]_vars

\* An OUT batch of two claimed rows, one of them skipped for its empty
\* aggregation, has committed and reported 2 while a third row waits for
\* the next batch.
C14_Witness ==
    \E t \in Tasks :
        /\ task[t].cnt = 2
        /\ task[t].typ = processTypeOut /\ task[t].pc = "claim"
        /\ <<1, "B">> \notin avm_output_addresses
        /\ output_addresses_accumulate[<<1, "A">>].processed_out = 1
        /\ output_addresses_accumulate[<<1, "B">>].processed_out = 0
        /\ Matches(processTypeOut, <<2, "A">>)

\* What an error-free run makes of the workload in the tables: the flags of
\* a staging row and the counters of a balance key.
ExpectedOut(r) ==
    IF r[1] \in DOMAIN avm_outputs /\ r \in avm_output_addresses THEN 1 ELSE 0
ExpectedIn(r) ==
    IF ExpectedOut(r) = 1 /\ r[1] \in avm_outputs_redeeming THEN 1 ELSE 0
ExpectedBalance(k) ==
    LET rows == {r \in DOMAIN output_addresses_accumulate : RowKey(r) = k}
        o == {r \in rows : ExpectedOut(r) = 1}
        i == {r \in rows : ExpectedIn(r) = 1}
    IN  [utxo_count |-> Cardinality(o) - Cardinality(i),
         total_received |-> SumAmount(o),
         total_sent |-> SumAmount(i),
         transaction_count |->
            Cardinality({x \in DOMAIN output_txs_accumulate : TxKey(x) = k})]

\* No committed staging row is left that a pass would claim and compact.
NothingLeft ==
    /\ \A r \in Range(OaaRows) :
          (Matches(processTypeOut, r) \/ Matches(processTypeIn, r)) => Aggregate(r) = <<>>
    /\ Len(ClaimedTxs) = 0

\* C15: progress survives a failed run.  A step in which a pass fails
\* changes no table, no flag is flipped twice, and whenever an Accumulate
\* has returned nil or the committed tables leave nothing to compact,
\* whether or not earlier runs ended with an error after committing some
\* batches, the flags and counters are those an error-free run makes of the
\* whole workload.
C15_ProgressKept ==
    /\ [][\A t \in Tasks :
            (InPass(task[t]) /\ task'[t].pc = "ret" /\ task'[t].err # NoError)
                => tables' = tables]_vars
    /\ [](\A f \in AllFlags : hist.flips[f] <= 1)
    /\ [](hist.completed >= 1 \/ NothingLeft =>
            /\ \A r \in DOMAIN output_addresses_accumulate :
                  output_addresses_accumulate[r] =
                     [processed_out |-> ExpectedOut(r), processed_in |-> ExpectedIn(r)]
            /\ \A x \in DOMAIN output_txs_accumulate :
                  output_txs_accumulate[x].processed = 1
            /\ \A k \in BalanceKeys :
                  Counter(accumulate_balances, k) = ExpectedBalance(k))

\* A run was ended by a non-deadlock error after it had committed batches
\* and with rows left; a later run has returned nil, and key (C, S, A) holds
\* both outputs and both transactions.
C15_Witness ==
    /\ hist.partial = 1
    /\ hist.completed >= 1
    /\ "err" \in hist.exits
    /\ Counter(accumulate_balances, ComputeID("C", "S", "A")).total_received = 15
    /\ Counter(accumulate_balances, ComputeID("C", "S", "A")).transaction_count = 2

\* The idle outer iterations in a row after which Accumulate returns: all
\* MaxIdle when no batch of the call claimed a row, one fewer after an
\* iteration that claimed one (its reset to 0 is followed by the loop's
\* increment).
IdleNeeded(tk) == IF tk.ever THEN MaxIdle - 1 ELSE MaxIdle

\* C16 as stated: Accumulate returns nil exactly after 10 consecutive idle
\* outer iterations, also after an iteration that made progress.
C16_TenIdleIterations ==
    \A t \in Tasks :
        (task[t].pc = "ret" /\ task[t].err = NoError) => task[t].idle = MaxIdle

\* C16, amended: Accumulate returns nil exactly when, since the call or
\* since the last outer iteration in which a batch claimed a row, 10
\* respectively 9 outer iterations in a row claimed nothing; while the count
\* is below that Accumulate is still inside a pass or has failed.
C16_IdleReturn ==
    \A t \in Tasks :
        /\ (task[t].pc = "ret" /\ task[t].err = NoError) =>
                task[t].idle = IdleNeeded(task[t])
        /\ InPass(task[t]) => task[t].idle < IdleNeeded(task[t])
        /\ task[t].idle <= MaxIdle

\* Accumulate is returning nil after a first outer iteration that processed
\* the workload and 9 idle ones.
C16_Witness ==
    \E t \in Tasks :
        /\ task[t].pc = "ret" /\ task[t].err = NoError
        /\ task[t].ever /\ task[t].idle = MaxIdle - 1
        /\ Counter(accumulate_balances, ComputeID("C", "S", "A")).total_received = 15

\* The pass that follows a pass in an outer iteration; after the transaction
\* pass the next iteration begins with the OUT pass.
PassAfter(typ) ==
    IF typ = processTypeOut THEN processTypeIn
    ELSE IF typ = processTypeIn THEN processTypeTx
    ELSE processTypeOut

\* One step keeps the order of the passes: a call starts with the OUT pass;
\* a batch that reports RowLintValue rows is followed by a batch of the same
\* pass; a batch that reports fewer is followed by the next pass in the
\* order OUT, IN, transactions (or by the return); and no other step moves
\* a task to another pass or starts a batch.
PassOrderStep ==
    \A t \in Tasks :
        LET failed == task'[t].pc = "ret" /\ task'[t].err # NoError
            returned == /\ task[t].pc \in {"claim", "commit"}
                        /\ task'[t].pc \in {"claim", "ret"}
                        /\ task'[t] # task[t]
                        /\ ~failed
        IN  /\ (task[t].pc = "call" /\ task'[t].pc # "call") =>
                task'[t].pc = "claim" /\ task'[t].typ = processTypeOut
            /\ (returned /\ task'[t].cnt >= RowLintValue) =>
                task'[t].pc = "claim" /\ task'[t].typ = task[t].typ
            /\ (returned /\ task'[t].cnt < RowLintValue) =>
                /\ task'[t].typ = PassAfter(task[t].typ)
                /\ task[t].typ # processTypeTx => task'[t].pc = "claim"
            /\ (InPass(task[t]) /\ task'[t].typ # task[t].typ) => returned \/ failed
            /\ (InPass(task[t]) /\ InPass(task'[t]) /\ task'[t].pc = "claim"
                   /\ task[t] # task'[t]) => returned

\* C17: within Accumulate the passes run in the order outputs-out,
\* outputs-in, transactions, each repeated until one of its batches reports
\* fewer than RowLintValue rows; no batch of a later pass starts before.
C17_PassOrder == [][PassOrderStep]_vars

\* After a full first OUT batch the OUT pass runs again and has claimed the
\* third row; no IN batch has started.
C17_Witness ==
    \E t \in Tasks :
        /\ task[t].typ = processTypeOut /\ task[t].pc = "agg"
        /\ task[t].cnt = RowLintValue
        /\ task[t].rowdata = << <<2, "A">> >>
        /\ \A r \in DOMAIN output_addresses_accumulate :
              output_addresses_accumulate[r].processed_in = 0

\* The value of the flag an output pass of direction typ sets, in table oaa.
FlagValue(oaa, typ, r) ==
    IF typ = processTypeOut THEN oaa[r].processed_out ELSE oaa[r].processed_in

\* One step treats an empty aggregation as a skip.  The step that finds it
\* moves to the next claimed row with nothing written and nothing lost; no
\* pass fails but by a failure of the store; and the commit of an output
\* batch leaves the flag of every skipped row at 0, sets the flag of every
\* other claimed row, and moves the counters by those other rows alone.
EmptyAggregationStep ==
    \A t \in Tasks :
        LET tk == task[t]
            failed == task'[t].pc = "ret" /\ task'[t].err # NoError
            skipped == {r \in Range(tk.rowdata) : Aggregate(r) = <<>>}
            done == Range(tk.rowdata) \ skipped
        IN  /\ (InPass(tk) /\ failed) => hist'.faults = hist.faults + 1
            /\ (tk.pc = "agg" /\ task'[t] # tk /\ ~failed
                   /\ Aggregate(tk.rowdata[tk.ri]) = <<>>) =>
                /\ task'[t].flg = tk.flg /\ task'[t].upd = tk.upd
                /\ task'[t].ins = tk.ins /\ task'[t].rowdata = tk.rowdata
                /\ task'[t].ri = tk.ri + 1
                /\ task'[t].pc = IF tk.ri < Len(tk.rowdata) THEN "agg" ELSE "commit"
                /\ hist'.infos = 1
                /\ UNCHANGED tables
            /\ (tk.pc = "commit" /\ tk.typ # processTypeTx /\ task'[t] # tk /\ ~failed) =>
                /\ \A r \in skipped :
                      /\ FlagValue(output_addresses_accumulate, tk.typ, r) = 0
                      /\ FlagValue(output_addresses_accumulate', tk.typ, r) = 0
                /\ \A r \in done :
                      /\ FlagValue(output_addresses_accumulate, tk.typ, r) = 0
                      /\ FlagValue(output_addresses_accumulate', tk.typ, r) = 1
                /\ \A k \in BalanceKeys :
                      LET c == Counter(accumulate_balances, k)
                          d == Counter(accumulate_balances', k)
                          mine == {r \in done : RowKey(r) = k}
                          sign == IF tk.typ = processTypeOut THEN 1 ELSE -1
                      IN  /\ d.utxo_count - c.utxo_count = sign * Cardinality(mine)
                          /\ (d.total_received - c.total_received) + (d.total_sent - c.total_sent)
                                = SumAmount(mine)

\* C18: an empty aggregation for a claimed row of an output pass is not an
\* error: the row's flag stays 0 and no counter moves for it, and every
\* other claimed row of the batch is compacted, flagged and committed in
\* the same transaction.
C18_EmptyAggregationSkipped == [][EmptyAggregationStep]_vars

\* Row (1, B) has no avm_output_addresses row and was skipped with a log
\* line, while row (2, A), claimed after it, is committed as processed:
\* key (C, S, A) counts both its outputs, key (C, S, B) none.
C18_Witness ==
    /\ <<1, "B">> \notin avm_output_addresses
    /\ hist.infos = 1
    /\ output_addresses_accumulate[<<1, "B">>].processed_out = 0
    /\ output_addresses_accumulate[<<2, "A">>].processed_out = 1
    /\ Counter(accumulate_balances, ComputeID("C", "S", "A")).utxo_count = 2
    /\ Counter(accumulate_balances, ComputeID("C", "S", "B")).utxo_count = 0
    /\ Counter(accumulate_balances, ComputeID("C", "S", "B")).total_received = 0

\* The balance keys of the rows a batch has claimed.
ClaimedKeys(tk) ==
    IF tk.typ = processTypeTx
    THEN {ComputeID(tk.rowdata[i].chain_id, tk.rowdata[i].asset_id,
                    tk.rowdata[i].address) : i \in 1..Len(tk.rowdata)}
    ELSE {RowKey(r) : r \in Range(tk.rowdata)}

\* What the commit of the batch of tk leaves alone.
Frame(tk) ==
    /\ UNCHANGED <<avm_outputs, avm_output_addresses, avm_outputs_redeeming>>
    /\ DOMAIN output_addresses_accumulate' = DOMAIN output_addresses_accumulate
    /\ DOMAIN output_txs_accumulate' = DOMAIN output_txs_accumulate
    /\ \A k \in BalanceKeys :
        LET c == Counter(accumulate_balances, k)
            d == Counter(accumulate_balances', k)
        IN  /\ tk.typ = processTypeOut =>
                  d.total_sent = c.total_sent /\ d.transaction_count = c.transaction_count
            /\ tk.typ = processTypeIn =>
                  d.total_received = c.total_received
                  /\ d.transaction_count = c.transaction_count
            /\ tk.typ = processTypeTx =>
                  /\ d.utxo_count = c.utxo_count
                  /\ d.total_received = c.total_received
                  /\ d.total_sent = c.total_sent
            /\ k \notin ClaimedKeys(tk) =>
                  /\ d = c
                  /\ k \in DOMAIN accumulate_balances' <=> k \in DOMAIN accumulate_balances
    /\ DOMAIN accumulate_balances' \subseteq BalanceKeys
    /\ \A r \in DOMAIN output_addresses_accumulate :
        /\ tk.typ = processTypeOut =>
              output_addresses_accumulate'[r].processed_in
                 = output_addresses_accumulate[r].processed_in
        /\ tk.typ = processTypeIn =>
              output_addresses_accumulate'[r].processed_out
                 = output_addresses_accumulate[r].processed_out
        /\ (tk.typ = processTypeTx \/ r \notin Range(tk.rowdata)) =>
              output_addresses_accumulate'[r] = output_addresses_accumulate[r]
    /\ \A i \in DOMAIN output_txs_accumulate :
        /\ tk.typ # processTypeTx => output_txs_accumulate'[i] = output_txs_accumulate[i]
        /\ (tk.typ = processTypeTx
              /\ \A j \in 1..Len(tk.rowdata) : tk.rowdata[j].id # i) =>
              output_txs_accumulate'[i] = output_txs_accumulate[i]
        /\ [output_txs_accumulate'[i] EXCEPT !.processed = 0]
              = [output_txs_accumulate[i] EXCEPT !.processed = 0]

\* One step changes the tables only as the commit of one batch, within the
\* frame of that batch.
FrameStep ==
    tables' # tables =>
        \E t \in Tasks :
            /\ task[t].pc = "commit"
            /\ task'[t].pc \in {"claim", "ret"} /\ task'[t].err = NoError
            /\ Frame(task[t])

\* C19: each pass changes only its own columns, and only in the rows it
\* claimed and the balance keys of those rows: an OUT batch leaves
\* total_sent, transaction_count and processed_in alone, an IN batch
\* total_received, transaction_count and processed_out, a transaction batch
\* the output counters and every output_addresses_accumulate flag.
C19_PassFrame == [][FrameStep]_vars

\* The OUT and IN passes have committed and the transaction pass has not:
\* key (C, S, A) has received both outputs and sent output 1, its
\* transaction_count is still 0 and no transaction row is processed.
C19_Witness ==
    /\ Counter(accumulate_balances, ComputeID("C", "S", "A"))
          = [utxo_count |-> 1, total_received |-> 15, total_sent |-> 10,
             transaction_count |-> 0]
    /\ output_addresses_accumulate[<<1, "A">>] = [processed_out |-> 1, processed_in |-> 1]
    /\ output_addresses_accumulate[<<2, "A">>] = [processed_out |-> 1, processed_in |-> 0]
    /\ \A i \in DOMAIN output_txs_accumulate : output_txs_accumulate[i].processed = 0

\* The staging rows the claim queries would return from the committed
\* tables: unprocessed output rows with their avm_outputs row, unredeemed-in
\* rows with avm_outputs and avm_outputs_redeeming rows, unprocessed
\* transaction rows.
Claimable ==
    {<<processTypeOut, r>> : r \in {x \in DOMAIN output_addresses_accumulate :
        x[1] \in DOMAIN avm_outputs /\ output_addresses_accumulate[x].processed_out = 0}}
    \cup {<<processTypeIn, r>> : r \in {x \in DOMAIN output_addresses_accumulate :
        /\ x[1] \in DOMAIN avm_outputs
        /\ x[1] \in avm_outputs_redeeming
        /\ output_addresses_accumulate[x].processed_in = 0}}
    \cup {<<processTypeTx, i>> : i \in {x \in DOMAIN output_txs_accumulate :
        output_txs_accumulate[x].processed = 0}}

\* C20: without concurrent inserts, when Accumulate returns nil, and ever
\* after, no claimable staging row remains.
C20_NothingClaimable ==
    /\ \A t \in Tasks : (task[t].pc = "ret" /\ task[t].err = NoError) => Claimable = {}
    /\ hist.completed >= 1 => Claimable = {}

\* Accumulate is returning nil from the run that flagged all three staging
\* rows as out-processed and all three transaction rows as processed.
C20_Witness ==
    /\ \E t \in Tasks : task[t].pc = "ret" /\ task[t].err = NoError /\ task[t].ever
    /\ \A r \in Range(OaaRows) : output_addresses_accumulate[r].processed_out = 1
    /\ DOMAIN output_txs_accumulate = {1, 2, 3}
    /\ \A i \in DOMAIN output_txs_accumulate : output_txs_accumulate[i].processed = 1

====
